---- MODULE Spec2Model ----
(***************************************************************************)
(* Price resolution and caching engine of CoinTaxman (src/price_data.py).  *)
(*                                                                         *)
(* Numbers.  decimal.Decimal values are modelled as exact rationals        *)
(* [n, d] in lowest terms; every Decimal operation rounds its exact result *)
(* to DecPrec significant digits (half-even), as the decimal context does. *)
(* The price column of the store is declared FLOAT: a value written        *)
(* through it keeps only FltPrec < DecPrec significant digits.             *)
(***************************************************************************)
EXTENDS Integers, Sequences, FiniteSets, TLC

\* ---------------------------------------------------------------- bounds
DecPrec == 3        \* significant digits of the decimal context
FltPrec == 2        \* significant digits a FLOAT column keeps
MaxCalls == 2       \* top-level calls issued in one behaviour
MaxDepth == 4       \* call-stack depth at which the interpreter gives up
MaxTime == 1        \* timestamps 1..MaxTime are requested

\* ------------------------------------------------------------- rationals
RECURSIVE GCD(_, _)
GCD(a, b) == IF b = 0 THEN a ELSE GCD(b, a % b)

Rat(n, d) == LET g == GCD(n, d) IN [n |-> n \div g, d |-> d \div g]

Zero == [n |-> 0, d |-> 1]
One == [n |-> 1, d |-> 1]
Int2Rat(i) == [n |-> i, d |-> 1]

RECURSIVE Pow10(_)
Pow10(k) == IF k = 0 THEN 1 ELSE 10 * Pow10(k - 1)

RECURSIVE NumDigits(_)
NumDigits(k) == IF k < 10 THEN 1 ELSE 1 + NumDigits(k \div 10)

\* coef + rem/d (0 <= rem < d) rounded half-even to an integer.
RoundUnit(coef, rem, d) ==
    IF 2 * rem < d THEN coef
    ELSE IF 2 * rem > d THEN coef + 1
    ELSE IF coef % 2 = 0 THEN coef ELSE coef + 1

\* Long division: coef / 10^e is the quotient so far and rem the remainder;
\* digits are produced until p significant ones are there or the division
\* comes out even.
RECURSIVE LongDiv(_, _, _, _, _)
LongDiv(coef, rem, d, e, p) ==
    IF rem = 0 \/ coef >= Pow10(p - 1)
    THEN Rat(RoundUnit(coef, rem, d), Pow10(e))
    ELSE LongDiv(coef * 10 + ((rem * 10) \div d), (rem * 10) % d, d, e + 1, p)

\* n/d (n >= 0, d > 0) rounded half-even to p significant decimal digits.
RoundSig(n, d, p) ==
    LET q == n \div d
        r == n % d
    IN  IF q >= Pow10(p)
        THEN LET k == Pow10(NumDigits(q) - p)
                 hi == q \div k
                 lo == q % k
                 up == \/ 2 * lo > k
                       \/ 2 * lo = k /\ (r > 0 \/ hi % 2 = 1)
             IN  Int2Rat((IF up THEN hi + 1 ELSE hi) * k)
        ELSE LongDiv(q, r, d, 0, p)

\* decimal.Decimal arithmetic under the context precision.
DecAdd(a, b) == RoundSig(a.n * b.d + b.n * a.d, a.d * b.d, DecPrec)
DecMul(a, b) == RoundSig(a.n * b.n, a.d * b.d, DecPrec)
DecDiv(a, b) == RoundSig(a.n * b.d, a.d * b.n, DecPrec)

\* misc.reciprocal: the zero "could not price" sentinel stays zero.
reciprocal(p) == IF p = Zero THEN Zero ELSE DecDiv(One, p)

\* str(price) written into the FLOAT column, and force_decimal of the
\* number read back.
ToDb(p) == RoundSig(p.n, p.d, FltPrec)
force_decimal(x) == [n |-> x.n, d |-> x.d]

\* ------------------------------------------- Venue B (Kraken) fetcher
\* Times of this section are seconds relative to the target utc_time.
PageLimit == 3                 \* trades the venue returns in one page
KrakenMinutesStep == 10
KrakenMaxOffset == 120
KrakenNumRetries == 10
TargetTs == 0

\* (TwiceK is the backoff growing linearly.)
TwiceK(k) == 2 * k

RECURSIVE Pow2(_)
Pow2(k) == IF k = 0 THEN 1 ELSE 2 * Pow2(k - 1)

\* bisect.bisect_left over a 1-based sequence, with 0-based positions.
RECURSIVE bisect_left_from(_, _, _, _)
bisect_left_from(a, x, lo, hi) ==
    IF lo < hi
    THEN LET mid == (lo + hi) \div 2
         IN  IF a[mid + 1] < x
             THEN bisect_left_from(a, x, mid + 1, hi)
             ELSE bisect_left_from(a, x, lo, mid)
    ELSE lo

\* The insertion point after the entries equal to x.
bisect_right(a, x) == Cardinality({i \in 1..Len(a) : a[i] <= x})

bisect_left(a, x) == bisect_left_from(a, x, 0, Len(a))

\* The venue: the trades since `since`, oldest first, one page of them.
RECURSIVE TradesSince(_, _)
TradesSince(hist, since) ==
    IF hist = <<>> THEN <<>>
    ELSE IF hist[1].ts >= since THEN hist
    ELSE TradesSince(Tail(hist), since)

Page(hist, since) ==
    LET all == TradesSince(hist, since)
    IN  SubSeq(all, 1, IF Len(all) < PageLimit THEN Len(all) ELSE PageLimit)

\* The requests of one page fetch against a venue that answers `e` times
\* with an error before it answers well: each error is followed by a sleep
\* of 2 ** (10 - num_retries) seconds.
RetryLog(offset, step, e) ==
    LET bad == IF e < KrakenNumRetries THEN e ELSE KrakenNumRetries
    IN  [i \in 1..bad |->
            [offset |-> offset, step |-> step, error |-> TRUE,
             sleep |-> Pow2(KrakenNumRetries - (KrakenNumRetries - i))]]
        \o (IF e < KrakenNumRetries
            THEN <<[offset |-> offset, step |-> step, error |-> FALSE,
                    sleep |-> 0]>>
            ELSE <<>>)

KrakenResult(out, price, page, index, log) ==
    [out |-> out, price |-> price, page |-> page, index |-> index, log |-> log]

\* The log entries of the page fetches lo..hi of one pass of the loop.
RECURSIVE ConcatLogs(_, _, _)
ConcatLogs(logs, lo, hi) ==
    IF lo > hi THEN <<>>
    ELSE IF lo = hi THEN logs[lo]
    ELSE LET mid == (lo + hi) \div 2
         IN  ConcatLogs(logs, lo, mid) \o ConcatLogs(logs, mid + 1, hi)

\* _get_price_kraken from the top of its `while minutes_offset < 120` loop.
\* errs[i] is the number of error answers to the i-th page fetch.  The
\* k-th iteration of the loop fetches at minutes_offset + k * minutes_step;
\* the loop runs while the offset before the increment is below 120 and
\* is left by the first iteration that does not `continue`.
RECURSIVE get_price_kraken(_, _, _, _, _, _)
get_price_kraken(hist, errs, minutes_step, minutes_offset, nfetch, log) ==
    LET iterations ==
            IF minutes_offset < KrakenMaxOffset
            THEN (KrakenMaxOffset - minutes_offset + minutes_step - 1)
                     \div minutes_step
            ELSE 0
        offset(k) == minutes_offset + k * minutes_step
        e(k) == IF nfetch + k <= Len(errs) THEN errs[nfetch + k] ELSE 0
        data(k) == Page(hist, TargetTs - 60 * offset(k))
        closest_match_index(k) ==
            bisect_left([i \in 1..Len(data(k)) |-> data(k)[i].ts], TargetTs) - 1
        leaves == {k \in 1..iterations :
                      e(k) >= KrakenNumRetries \/ closest_match_index(k) # -1}
        last == IF leaves = {} THEN iterations
                ELSE CHOOSE k \in leaves : \A j \in leaves : k <= j
        log2 == log \o ConcatLogs(
                    [k \in 1..last |-> RetryLog(offset(k), minutes_step, e(k))],
                    1, last)
    IN  IF leaves = {}
        THEN KrakenResult("zero", Zero, <<>>, -1, log2)
        ELSE IF e(last) >= KrakenNumRetries
        THEN KrakenResult("RuntimeError", Zero, <<>>, -1, log2)
        ELSE IF closest_match_index(last) = Len(data(last)) - 1
        THEN IF minutes_step = 1
             THEN KrakenResult("zero", Zero, data(last),
                               closest_match_index(last), log2)
             ELSE get_price_kraken(hist, errs, minutes_step - 1, 0,
                                   nfetch + last, log2)
        ELSE KrakenResult("price", data(last)[closest_match_index(last) + 1].price,
                          data(last), closest_match_index(last), log2)

\* Venue inputs: trade times, each trade priced by its rank in time.
KrakenTradeTimes == {-7100, -650, -50, -20, -5, 0, 10}

RECURSIVE SortedSeq(_)
SortedSeq(S) ==
    IF S = {} THEN <<>>
    ELSE LET m == CHOOSE x \in S : \A y \in S : x <= y
         IN  <<m>> \o SortedSeq(S \ {m})

KrakenHistory(S) ==
    LET ts == SortedSeq(S)
        rank(x) == Cardinality({y \in KrakenTradeTimes : y <= x})
    IN  [i \in 1..Len(ts) |-> [ts |-> ts[i], price |-> Int2Rat(10 + rank(ts[i]))]]

KrakenHistories == {KrakenHistory(S) : S \in SUBSET KrakenTradeTimes}
KrakenErrs == {<<>>, <<1>>, <<0, 2>>, <<KrakenNumRetries>>}

\* The venues get_price is run against: a trade before and one after the
\* target, a trade at the target, no trades, and a venue that keeps
\* answering with an error.
KrakenVenues ==
    { [hist |-> KrakenHistory({-5, 10}), errs |-> <<>>],
      [hist |-> KrakenHistory({-5, 0, 10}), errs |-> <<2>>],
      [hist |-> KrakenHistory({}), errs |-> <<>>],
      [hist |-> KrakenHistory({-5, 10}), errs |-> <<KrakenNumRetries>>] }

\* ------------------------------------------------------------ the world
\* Venue names: two have a fetcher method (_get_price_binance,
\* _get_price_kraken), "bitpanda" has none.
Platforms == {"binance", "kraken", "bitpanda"}
HasFetcher(platform) == platform \in {"binance", "kraken"}
Assets == {"BTC", "EUR", "TWT"}
Times == 1..MaxTime
Callers == {1, 2}

\* Trades an aggTrades window may hold: price p and quantity q strings.
Trade(p, q) == [p |-> Int2Rat(p), q |-> Int2Rat(q)]
TradeLists ==
    { <<>>,
      <<Trade(1, 1), Trade(2, 1)>>,
      <<Trade(1, 2), Trade(2, 1)>>,
      <<Trade(10, 1), Trade(20, 3)>> }

\* Prices handed to set_price_db.
SetPrices == {Int2Rat(2), DecDiv(Int2Rat(4), Int2Rat(3))}

\* The top-level calls that are issued: <<platform, coin, reference>>.
GetRequests ==
    ({"binance"} \X {"TWT"} \X {"EUR", "BTC", "TWT"})
    \cup ({"kraken"} \X {"TWT"} \X {"EUR"})
    \cup {<<"bitpanda", "EUR", "EUR">>, <<"bitpanda", "TWT", "EUR">>}
SetRequests ==
    ({"binance", "bitpanda"} \X {"TWT"} \X {"EUR"})
    \cup ({"kraken"} \X {"EUR"} \X {"EUR"})

VARIABLES
    db,         \* Cache Store: (platform, coin, reference, time) -> stored number
    first,      \* history: the price handed to the insert that created a record
    stack,      \* per caller: the frames of its running call, innermost last
    cur,        \* per caller: the top-level call in progress and its counters
    last,       \* per caller: the top-level call that ended last
    ncalls,     \* top-level calls issued so far
    symInfo,    \* what binance has answered about a symbol so far
    kin,        \* Kraken fetcher alone: the venue it runs against
    kout,       \* Kraken fetcher alone: its result
    bulk,       \* batch preloader: the running preload call
    prio        \* Path Resolver: priority weight of every edge symbol

varsMain == <<db, first, stack, cur, last, ncalls, symInfo>>
varsKraken == <<kin, kout>>
varsBulk == <<bulk, prio>>
vars == <<varsMain, varsKraken, varsBulk>>

Key(platform, coin, ref, t) == <<platform, coin, ref, t>>
FrameKey(f) == Key(f.platform, f.coin, f.ref, f.t)

\* get_db_path / get_tablename select the store and the table of a pair.
get_tablename(coin, ref) == <<coin, ref>>

\* __get_price_db: the stored price, or absent (no file, no table, no row).
\* (HasPriceNever is a lookup that never finds a row, HasPriceTruthy one
\* that takes a stored zero for no row.)
HasPriceNever(store, k) == FALSE
HasPriceTruthy(store, k) == k \in DOMAIN store /\ store[k] # [n |-> 0, d |-> 1]
HasPrice(store, k) == k \in DOMAIN store
get_price_db(store, k) == force_decimal(store[k])

\* __set_price_db: utc_time is the table's PRIMARY KEY, so an INSERT on a
\* key that has a row fails with sqlite3.IntegrityError.  (no_primary_key
\* is the table without that constraint.)
no_primary_key(store, k) == FALSE
unique_violation(store, k) == k \in DOMAIN store
set_price_db_row(store, k, price) ==
    [x \in DOMAIN store \cup {k} |-> IF x = k THEN ToDb(price) ELSE store[x]]

\* get_price, line 392.  (same_coin_never is get_price without that test.)
same_coin_never(coin, ref) == FALSE
same_coin(coin, ref) == coin = ref

\* _get_price_binance, line 123.  (bridge_price_sum adds the legs instead.)
bridge_price_sum(btc, quote) == DecAdd(btc, quote)
bridge_price(btc, quote) == DecMul(btc, quote)

Frame(fn, platform, coin, ref, t, swapped, price) ==
    [fn |-> fn, platform |-> platform, coin |-> coin, ref |-> ref, t |-> t,
     swapped |-> swapped, pc |-> "start", via |-> "none",
     price |-> price, btc |-> Zero, quote |-> Zero, trades |-> <<>>]

NoFrame == Frame("none", "binance", "BTC", "BTC", 1, FALSE, Zero)

Idle ==
    [op |-> "idle", platform |-> "binance", coin |-> "BTC", ref |-> "BTC",
     t |-> 1, price |-> Zero, reqs |-> 0, reads |-> 0, writes |-> 0,
     warned |-> FALSE, invalid |-> {}]

Ended(cu, status, value, frame) ==
    [call |-> cu, status |-> status, value |-> value, frame |-> frame]

NoCall == Ended(Idle, "none", Zero, NoFrame)

NoVenue == [hist |-> <<>>, errs |-> <<>>]
NotRun == KrakenResult("none", Zero, <<>>, -1, <<>>)

\* ------------------------------------------------------- batch preloader
\* Times of this section are minutes; to_ms_timestamp turns them into the
\* milliseconds ccxt works with.
MaxOps == 2                    \* operations handed to one preload call
maxminutes == 300
MsPerMinute == 60000
FIAT == "EUR"
BulkCoin == "TWT"              \* the `coin` argument of the preload call
to_ms_timestamp(t) == t * MsPerMinute

Op(platform, coin, utc_time) ==
    [platform |-> platform, coin |-> coin, utc_time |-> utc_time]

BulkOps ==
    { Op("binance", "TWT", 0), Op("binance", "TWT", 1),
      Op("binance", "TWT", 296), Op("kraken", "TWT", 0),
      Op("binance", "EUR", 2) }

OpLists == UNION { [1..n -> BulkOps] : n \in 1..MaxOps }

\* Stores a preload call may find: empty, or holding for one key the zero
\* price get_price wrote after an empty answer, or a price.
BulkStores ==
    LET k == Key("binance", BulkCoin, FIAT, 0)
    IN  { <<>>, k :> Zero, k :> Int2Rat(3) }

\* Lines 580-587: `if not self.__get_price_db(...)`.  None and a zero
\* Decimal are both false.
operations_filtered(store, operations, coin) ==
    LET keep(op) ==
          LET k == Key(op.platform, coin, FIAT, op.utc_time)
          IN  ~HasPrice(store, k) \/ get_price_db(store, k) = Zero
    IN  SelectSeq(operations, keep)

\* Lines 590-596: one list per platform, in order of first appearance.
AddToGroup(groups, op) ==
    IF op.coin = FIAT THEN groups
    ELSE IF \E i \in 1..Len(groups) : groups[i].platf = op.platform
    THEN [i \in 1..Len(groups) |->
            IF groups[i].platf = op.platform
            THEN [groups[i] EXCEPT !.ops = Append(@, op)]
            ELSE groups[i]]
    ELSE Append(groups, [platf |-> op.platform, ops |-> <<op>>])

RECURSIVE operations_grouped(_, _)
operations_grouped(ops, i) ==
    IF i = 0 THEN <<>>
    ELSE AddToGroup(operations_grouped(ops, i - 1), ops[i])

\* Lines 490-500: a timestamp joins the current batch when it is less than
\* maxminutes - 4 minutes after the batch's first one.
AddTimestamp(st, timestamp) ==
    IF st.pairs # <<>> /\ st.current_first + (maxminutes - 4) > timestamp
    THEN [st EXCEPT !.pairs[Len(st.pairs)] = Append(@, timestamp)]
    ELSE [pairs |-> Append(st.pairs, <<timestamp>>),
          current_first |-> timestamp]

RECURSIVE timestamppairs_from(_, _)
timestamppairs_from(timestamps, i) ==
    IF i = 0 THEN [pairs |-> <<>>, current_first |-> 0]
    ELSE AddTimestamp(timestamppairs_from(timestamps, i - 1), timestamps[i])

timestamppairs(ops) ==
    timestamppairs_from([i \in 1..Len(ops) |-> ops[i].utc_time], Len(ops)).pairs

\* Path Resolver (graph.PricePath).  An edge is a symbol on an exchange,
\* used as quoted or inverted; getpath answers with a list of candidate
\* paths; change_prio multiplies the weight of the symbols it is given.
Edge(symbol, exchange, inverted) ==
    [symbol |-> symbol, exchange |-> exchange, inverted |-> inverted]

PathDirect == <<Edge("TWT/EUR", "binance", FALSE)>>
PathBridge == <<Edge("TWT/BTC", "binance", FALSE), Edge("BTC/EUR", "kraken", FALSE)>>
PathInverted == <<Edge("EUR/TWT", "kraken", TRUE)>>
Symbols == {"TWT/EUR", "TWT/BTC", "BTC/EUR", "EUR/TWT"}

getpath_results ==
    { <<>>, <<PathDirect>>, <<PathBridge, PathDirect>>,
      <<PathInverted, PathBridge>> }

InitPrio == [s \in Symbols |-> One]
DecayFactor == [n |-> 1, d |-> 5]

change_prio(weights, key, value) ==
    [s \in DOMAIN weights |->
        IF \E i \in 1..Len(key) : key[i] = s
        THEN Rat(weights[s].n * value.n, weights[s].d * value.d)
        ELSE weights[s]]

\* Line 516.  (printstr_first names the first hop only.)
printstr_first(path) == <<path[1].symbol>>
printstr(path) == [i \in 1..Len(path) |-> path[i].symbol]

\* get_candles, lines 436-457: the request it sends for a window.
CeilDiv(a, b) == (a + b - 1) \div b

candle_request(start, stop, symbol, exchange) ==
    [symbol |-> symbol, exchange |-> exchange, start |-> start, stop |-> stop,
     since |-> start - 2 * 60 * 1000,
     limit |-> CeilDiv(stop - start, 1000 * 60) + 2]

\* The venue (ccxt fetch_ohlcv): at most `limit` one-minute candles, oldest
\* first, none older than `since`.  A venue has a candle for every minute,
\* for the even minutes only, or none.
CandleKinds == {"none", "every", "even"}

Candle(m) ==
    [ts |-> to_ms_timestamp(m), open |-> Int2Rat(1 + (m % 3)),
     close |-> Int2Rat(3 + (m % 3))]

fetch_ohlcv(kind, since, limit) ==
    LET m0 == CeilDiv(since, MsPerMinute)
        e0 == IF m0 % 2 = 0 THEN m0 ELSE m0 + 1
    IN  CASE kind = "none" -> <<>>
          [] kind = "every" -> [i \in 1..limit |-> Candle(m0 + (i - 1))]
          [] kind = "even" -> [i \in 1..limit |-> Candle(e0 + 2 * (i - 1))]

\* Python float arithmetic on the candle values.
FltAdd(a, b) == RoundSig(a.n * b.d + b.n * a.d, a.d * b.d, FltPrec)
FltMul(a, b) == RoundSig(a.n * b.n, a.d * b.d, FltPrec)
FltDiv(a, b) == RoundSig(a.n * b.d, a.d * b.n, FltPrec)

\* The mean of open and close whatever the edge's direction.
plain_value(x, invert) == FltDiv(FltAdd(x.open, x.close), Int2Rat(2))

\* Lines 524-531: (timestamp, mean of open and close), inverted or not.
hop_value(x, invert) ==
    LET mean == FltDiv(FltAdd(x.open, x.close), Int2Rat(2))
    IN  IF invert THEN FltDiv(One, mean) ELSE mean

\* Lines 539-550: min() over the absolute differences keeps the first of
\* the closest candles; its value is the price of the operation.
Abs(x) == IF x < 0 THEN -x ELSE x

closest_candle(candles, operation) ==
    LET dist(i) == Abs(to_ms_timestamp(operation) - candles[i].ts)
        dists == {dist(i) : i \in 1..Len(candles)}
        least == CHOOSE d \in dists : \A e \in dists : d <= e
        best == CHOOSE i \in 1..Len(candles) :
                    /\ dist(i) = least
                    /\ \A j \in 1..(i - 1) : dist(j) # least
    IN  candles[best]

hop_prices(candles, invert, batch) ==
    [i \in 1..Len(batch) |->
        [t |-> batch[i],
         price |-> hop_value(closest_candle(candles, batch[i]), invert)]]

\* Lines 468-479.
merge_prices(a, b) ==
    IF b = <<>> THEN a
    ELSE [i \in 1..Len(a) |->
            LET j == CHOOSE j \in 1..Len(b) :
                        /\ b[j].t = a[i].t
                        /\ \A h \in 1..(j - 1) : b[h].t # a[i].t
            IN  [t |-> a[i].t, price |-> FltMul(a[i].price, b[j].price)]]

RECURSIVE merge_all(_, _)
merge_all(tempdatalis, i) ==
    IF i = 0 THEN <<>>
    ELSE merge_prices(tempdatalis[i], merge_all(tempdatalis, i - 1))

\* The preload call: its position, inputs, loop variables and what it did.
NoBulk ==
    [pc |-> "idle", status |-> "none", ops |-> <<>>, filtered |-> <<>>,
     groups |-> <<>>, gi |-> 0, batches |-> <<>>, bi |-> 0, paths |-> <<>>,
     pi |-> 0, hi |-> 0, tempdatalis |-> <<>>, datacomb |-> <<>>, di |-> 0,
     reqs |-> <<>>, failed |-> <<>>, accepted |-> <<>>, warned |-> 0]
\* reqs, failed and accepted are history: the candle requests of the
\* current batch, and its paths that failed and that were accepted.

Init ==
    /\ db = <<>>
    /\ first = <<>>
    /\ stack = [c \in Callers |-> <<>>]
    /\ cur = [c \in Callers |-> Idle]
    /\ last = [c \in Callers |-> NoCall]
    /\ ncalls = 0
    /\ symInfo = [s \in Assets \X Assets |-> "unknown"]
    /\ kin = NoVenue
    /\ kout = NotRun
    /\ bulk = NoBulk
    /\ prio = InitPrio

Top(c) == stack[c][Len(stack[c])]
Running(c, fn, pc) ==
    /\ stack[c] # <<>>
    /\ Top(c).fn = fn
    /\ Top(c).pc = pc

\* The call of caller c ends: with a value, or with an exception that no
\* frame handles.
Finish(c, cu, status, value, frame) ==
    /\ stack' = [stack EXCEPT ![c] = <<>>]
    /\ cur' = [cur EXCEPT ![c] = Idle]
    /\ last' = [last EXCEPT ![c] = Ended(cu, status, value, frame)]

\* The exception is caught and the call answers zero.
Swallow(c, cu, err) == Finish(c, cu, "ok", Zero, stack[c][1])

Raise(c, cu, err) == Finish(c, cu, err, Zero, stack[c][1])

\* The innermost frame of caller c returns v to the frame that called it.
Return(c, cu, v) ==
    LET s == stack[c]
        n == Len(s)
    IN  IF n = 1
        THEN Finish(c, cu, "ok", v, s[1])
        ELSE
          LET par == s[n - 1]
              base == SubSeq(s, 1, n - 2)
          IN  IF par.fn = "set_price_db"
              THEN \* lines 355-361: warn when a different price is stored
                   Finish(c, [cu EXCEPT !.warned = (par.price # v)], "ok",
                          Zero, par)
              ELSE
                /\ last' = last
                /\ cur' = [cur EXCEPT ![c] = cu]
                /\ stack' = [stack EXCEPT ![c] =
                     CASE par.pc = "swap" ->    \* line 119
                            Append(base, [par EXCEPT !.pc = "store",
                                              !.price = reciprocal(v)])
                       [] par.pc = "btc" ->     \* lines 121-122
                            base \o <<[par EXCEPT !.pc = "quote", !.btc = v],
                                      Frame("get_price", "binance", "BTC",
                                            par.ref, par.t, FALSE, Zero)>>
                       [] par.pc = "quote" ->   \* line 123
                            Append(base, [par EXCEPT !.pc = "store",
                                              !.quote = v,
                                              !.price = bridge_price(par.btc, v)])]

\* ------------------------------------------------------------ top-level calls
NewCall(op, platform, coin, ref, t, price) ==
    [Idle EXCEPT !.op = op, !.platform = platform, !.coin = coin,
                 !.ref = ref, !.t = t, !.price = price]

CallGetPrice(c) ==
    /\ stack[c] = <<>>
    /\ ncalls < MaxCalls
    /\ \E r \in GetRequests, t \in Times :
        /\ stack' = [stack EXCEPT ![c] =
                <<Frame("get_price", r[1], r[2], r[3], t, FALSE, Zero)>>]
        /\ cur' = [cur EXCEPT ![c] =
                NewCall("get_price", r[1], r[2], r[3], t, Zero)]
    /\ ncalls' = ncalls + 1
    /\ UNCHANGED <<db, first, last, symInfo, varsKraken, varsBulk>>

CallSetPriceDb(c) ==
    /\ stack[c] = <<>>
    /\ ncalls < MaxCalls
    /\ \E r \in SetRequests, t \in Times, price \in SetPrices :
        /\ stack' = [stack EXCEPT ![c] =
                <<Frame("set_price_db", r[1], r[2], r[3], t, FALSE, price)>>]
        /\ cur' = [cur EXCEPT ![c] =
                NewCall("set_price_db", r[1], r[2], r[3], t, price)]
    /\ ncalls' = ncalls + 1
    /\ UNCHANGED <<db, first, last, symInfo, varsKraken, varsBulk>>

\* ------------------------------------------------------------ get_price
\* Lines 392-405: identity, cache lookup, fetcher dispatch.
GetPriceStart(c) ==
    /\ Running(c, "get_price", "start")
    /\ LET f == Top(c)
           cu == [cur[c] EXCEPT !.reads = @ + 1]
       IN  IF same_coin(f.coin, f.ref)
           THEN Return(c, cur[c], One)
           ELSE IF HasPrice(db, FrameKey(f))
           THEN Return(c, cu, get_price_db(db, FrameKey(f)))
           ELSE IF ~HasFetcher(f.platform)
           THEN Raise(c, cu, "NotImplementedError")
           ELSE /\ stack' = [stack EXCEPT ![c][Len(stack[c])].pc = "fetch"]
                /\ cur' = [cur EXCEPT ![c] = cu]
                /\ last' = last
    /\ UNCHANGED <<db, first, ncalls, symInfo, varsKraken, varsBulk>>

\* Lines 408-409: write the fetched price back and return it.
GetPriceStore(c) ==
    /\ Running(c, "get_price", "store")
    /\ LET f == Top(c)
           k == FrameKey(f)
           cu == [cur[c] EXCEPT !.writes = @ + 1]
       IN  IF unique_violation(db, k)
           THEN /\ Raise(c, cu, "IntegrityError")
                /\ UNCHANGED <<db, first>>
           ELSE /\ db' = set_price_db_row(db, k, f.price)
                /\ first' = first @@ (k :> f.price)
                /\ Return(c, cu, f.price)
    /\ UNCHANGED <<ncalls, symInfo, varsKraken, varsBulk>>

\* ------------------------------------------- Venue A (Binance) fetcher
RECURSIVE total_cost(_, _)
total_cost(data, i) ==
    IF i = 0 THEN Zero
    ELSE DecAdd(total_cost(data, i - 1), DecMul(data[i].p, data[i].q))

RECURSIVE total_quantity(_, _)
total_quantity(data, i) ==
    IF i = 0 THEN Zero ELSE DecAdd(total_quantity(data, i - 1), data[i].q)

\* Lines 127-140.  (mean_price is the average that ignores the quantities.)
RECURSIVE price_sum(_, _)
price_sum(data, i) ==
    IF i = 0 THEN Zero ELSE DecAdd(price_sum(data, i - 1), data[i].p)

mean_price(data) ==
    IF Len(data) = 0 THEN Zero
    ELSE DecDiv(price_sum(data, Len(data)), Int2Rat(Len(data)))

average_price(data) ==
    IF Len(data) = 0 THEN Zero
    ELSE DecDiv(total_cost(data, Len(data)), total_quantity(data, Len(data)))

\* Lines 106-123: what the fetcher does with an "Invalid symbol." answer.
BinanceInvalidSymbol(c, cu) ==
    LET f == Top(c)
        s == stack[c]
        n == Len(s)
    IN  IF f.ref = "BTC" /\ f.swapped
        THEN Raise(c, cu, "RuntimeError")
        ELSE IF n >= MaxDepth
        THEN Raise(c, cu, "RecursionError")
        ELSE
          /\ last' = last
          /\ cur' = [cur EXCEPT ![c] = cu]
          /\ stack' = [stack EXCEPT ![c] =
               IF f.ref = "BTC"
               THEN [s EXCEPT ![n].pc = "swap", ![n].via = "swap"]
                    \o <<Frame("get_price", "binance", f.ref, f.coin, f.t,
                               TRUE, Zero)>>
               ELSE [s EXCEPT ![n].pc = "btc", ![n].via = "bridge"]
                    \o <<Frame("get_price", "binance", f.coin, "BTC", f.t,
                               FALSE, Zero)>>]

\* One aggTrades request (lines 88-140) and what follows from its answer.
BinanceRequest(c) ==
    /\ Running(c, "get_price", "fetch")
    /\ Top(c).platform = "binance"
    /\ LET f == Top(c)
           sym == <<f.coin, f.ref>>
           cu == [cur[c] EXCEPT !.reqs = @ + 1]
       IN  \/ /\ symInfo[sym] # "valid"
              /\ symInfo' = [symInfo EXCEPT ![sym] = "invalid"]
              /\ BinanceInvalidSymbol(c, [cu EXCEPT !.invalid = @ \cup {sym}])
           \/ /\ symInfo' = symInfo
              /\ Raise(c, cu, "HTTPError")
           \/ /\ symInfo[sym] # "invalid"
              /\ symInfo' = [symInfo EXCEPT ![sym] = "valid"]
              /\ \E data \in TradeLists :
                   stack' = [stack EXCEPT ![c][Len(stack[c])] =
                       [f EXCEPT !.pc = "store", !.via = "direct",
                                 !.trades = data,
                                 !.price = average_price(data)]]
              /\ cur' = [cur EXCEPT ![c] = cu]
              /\ last' = last
    /\ UNCHANGED <<db, first, ncalls, varsKraken, varsBulk>>

\* The whole of _get_price_kraken against one venue history; kin and kout
\* keep the venue and the result of the latest run.
KrakenFetch(c) ==
    /\ Running(c, "get_price", "fetch")
    /\ Top(c).platform = "kraken"
    /\ \E v \in KrakenVenues :
        LET r == get_price_kraken(v.hist, v.errs, KrakenMinutesStep, 0, 0, <<>>)
            cu == [cur[c] EXCEPT !.reqs = @ + Len(r.log)]
        IN /\ IF r.out = "RuntimeError"
            THEN Raise(c, cu, "RuntimeError")
            ELSE /\ stack' = [stack EXCEPT ![c][Len(stack[c])] =
                        [Top(c) EXCEPT !.pc = "store", !.via = "direct",
                                       !.price = r.price]]
                 /\ cur' = [cur EXCEPT ![c] = cu]
                 /\ last' = last
           /\ kin' = v
           /\ kout' = r
    /\ UNCHANGED <<db, first, ncalls, symInfo, varsBulk>>

\* ------------------------------------------------------------ set_price_db
\* Lines 348-363.
SetPriceDb(c) ==
    /\ Running(c, "set_price_db", "start")
    /\ LET f == Top(c)
           k == FrameKey(f)
           cu == [cur[c] EXCEPT !.writes = @ + 1]
       IN  IF f.coin = f.ref
           THEN /\ Raise(c, cur[c], "AssertionError")
                /\ UNCHANGED <<db, first>>
           ELSE IF ~unique_violation(db, k)
           THEN /\ db' = set_price_db_row(db, k, f.price)
                /\ first' = first @@ (k :> f.price)
                /\ Finish(c, cu, "ok", Zero, f)
           ELSE \* IntegrityError: read the stored price through get_price
                /\ stack' = [stack EXCEPT ![c] =
                       <<[f EXCEPT !.pc = "conflict"],
                         Frame("get_price", f.platform, f.coin, f.ref, f.t,
                               FALSE, Zero)>>]
                /\ cur' = [cur EXCEPT ![c] = cu]
                /\ last' = last
                /\ UNCHANGED <<db, first>>
    /\ UNCHANGED <<ncalls, symInfo, varsKraken, varsBulk>>

Next ==
    \/ CallGetPrice(1)
    \/ CallSetPriceDb(1)
    \/ GetPriceStart(1)
    \/ BinanceRequest(1)
    \/ KrakenFetch(1)
    \/ GetPriceStore(1)
    \/ SetPriceDb(1)

Spec == Init /\ [][Next]_vars

\* Two callers (threads, or two runs of the program on one store) whose
\* steps interleave at the store accesses and the remote requests.
NextConc ==
    \E c \in Callers :
        \/ CallGetPrice(c)
        \/ CallSetPriceDb(c)
        \/ GetPriceStart(c)
        \/ BinanceRequest(c)
        \/ KrakenFetch(c)
        \/ GetPriceStore(c)
        \/ SetPriceDb(c)

SpecConc == Init /\ [][NextConc]_vars

\* --------------------------------------------- the Kraken fetcher alone
InitKraken ==
    /\ db = <<>>
    /\ first = <<>>
    /\ stack = [c \in Callers |-> <<>>]
    /\ cur = [c \in Callers |-> Idle]
    /\ last = [c \in Callers |-> NoCall]
    /\ ncalls = 0
    /\ symInfo = [s \in Assets \X Assets |-> "unknown"]
    /\ kin \in [hist : KrakenHistories, errs : KrakenErrs]
    /\ kout = NotRun
    /\ bulk = NoBulk
    /\ prio = InitPrio

KrakenCall ==
    /\ kout.out = "none"
    /\ kout' = get_price_kraken(kin.hist, kin.errs, KrakenMinutesStep, 0, 0, <<>>)
    /\ UNCHANGED <<kin, varsMain, varsBulk>>

SpecKraken == InitKraken /\ [][KrakenCall]_vars

\* -------------------------------------------- the batch preloader alone
InitBulk ==
    /\ db \in BulkStores
    /\ first = db
    /\ stack = [c \in Callers |-> <<>>]
    /\ cur = [c \in Callers |-> Idle]
    /\ last = [c \in Callers |-> NoCall]
    /\ ncalls = 0
    /\ symInfo = [s \in Assets \X Assets |-> "unknown"]
    /\ kin = NoVenue
    /\ kout = NotRun
    /\ \E ops \in OpLists : bulk = [NoBulk EXCEPT !.pc = "start", !.ops = ops]
    /\ prio = InitPrio

\* preload_price_data_path, lines 576-596: filter and group.
BulkFilter ==
    /\ bulk.pc = "start"
    /\ LET filtered == operations_filtered(db, bulk.ops, BulkCoin)
       IN  bulk' = [bulk EXCEPT
                !.pc = "platf",
                !.filtered = filtered,
                !.groups = operations_grouped(filtered, Len(filtered)),
                !.gi = 1]
    /\ UNCHANGED <<varsMain, varsKraken, prio>>

\* Lines 597-598 and 481-501: the next platform's operations are batched.
BulkBatches ==
    /\ bulk.pc = "platf"
    /\ IF bulk.gi > Len(bulk.groups)
       THEN bulk' = [bulk EXCEPT !.pc = "done", !.status = "ok"]
       ELSE bulk' = [bulk EXCEPT
                !.pc = "batch",
                !.batches = timestamppairs(bulk.groups[bulk.gi].ops),
                !.bi = 1,
                !.datacomb = <<>>]
    /\ UNCHANGED <<varsMain, varsKraken, prio>>

\* Lines 502-513: the next batch asks the Path Resolver for its paths; after
\* the last batch the prices found go to the store (line 604).
BulkGetPath ==
    /\ bulk.pc = "batch"
    /\ IF bulk.bi > Len(bulk.batches)
       THEN IF bulk.datacomb = <<>>
            THEN bulk' = [bulk EXCEPT !.pc = "platf", !.gi = @ + 1]
            ELSE bulk' = [bulk EXCEPT !.pc = "store", !.di = 1]
       ELSE \E path \in getpath_results :
              LET b == [bulk EXCEPT !.paths = path, !.reqs = <<>>,
                                    !.failed = <<>>, !.accepted = <<>>]
              IN  IF path = <<>>
                  THEN bulk' = [b EXCEPT !.bi = @ + 1]
                  ELSE bulk' = [b EXCEPT !.pc = "path", !.pi = 1, !.hi = 1,
                                         !.tempdatalis = <<>>]
    /\ UNCHANGED <<varsMain, varsKraken, prio>>

\* The path loop leaves out the path after the failed one.
skip_path(b) ==
    IF b.pi + 1 < Len(b.paths)
    THEN [b EXCEPT !.pi = @ + 2, !.hi = 1, !.tempdatalis = <<>>]
    ELSE [b EXCEPT !.pc = "batch", !.bi = @ + 1]

\* Line 568: the path loop goes on with the next path, or ends the batch.
next_path(b) ==
    IF b.pi < Len(b.paths)
    THEN [b EXCEPT !.pi = @ + 1, !.hi = 1, !.tempdatalis = <<>>]
    ELSE [b EXCEPT !.pc = "batch", !.bi = @ + 1]

\* Lines 551-555 and 559-561: a failed path has its weight reduced.
path_failed(b, path) ==
    next_path([b EXCEPT !.failed = Append(@, [bi |-> b.bi, pi |-> b.pi,
                                              key |-> printstr(path)])])

\* Lines 514-568: one hop of the current path.  get_candles is asked for the
\* batch window; no data fails the path, data for the last hop completes it.
BulkGetCandles ==
    /\ bulk.pc = "path"
    /\ LET batch == bulk.batches[bulk.bi]
           first_ms == to_ms_timestamp(batch[1])
           last_ms == to_ms_timestamp(batch[Len(batch)])
           p == bulk.paths[bulk.pi]
           e == p[bulk.hi]
           req == candle_request(first_ms, last_ms, e.symbol, e.exchange)
       IN  IF ~(req.stop >= req.start)
           THEN /\ bulk' = [bulk EXCEPT !.pc = "done",
                                        !.status = "AssertionError"]
                /\ prio' = prio
           ELSE \E kind \in CandleKinds :
             LET candles == fetch_ohlcv(kind, req.since, req.limit)
                 b == [bulk EXCEPT !.reqs = Append(@,
                          [gi |-> bulk.gi, bi |-> bulk.bi, pi |-> bulk.pi,
                           hi |-> bulk.hi, req |-> req, venue |-> kind,
                           answered |-> Len(candles)])]
                 lis == Append(bulk.tempdatalis, hop_prices(candles, e.inverted, batch))
             IN  IF candles = <<>>
                 THEN /\ bulk' = path_failed(b, p)
                      /\ prio' = change_prio(prio, printstr(p), DecayFactor)
                 ELSE IF bulk.hi < Len(p)
                 THEN /\ bulk' = [b EXCEPT !.hi = @ + 1, !.tempdatalis = lis]
                      /\ prio' = prio
                 ELSE IF \E i \in 1..Len(lis) : Len(lis[i]) # Len(lis[1])
                 THEN /\ bulk' = path_failed(b, p)
                      /\ prio' = change_prio(prio, printstr(p), DecayFactor)
                 ELSE /\ bulk' = [b EXCEPT
                            !.pc = "batch", !.bi = @ + 1,
                            !.tempdatalis = lis,
                            !.datacomb = @ \o merge_all(lis, Len(lis)),
                            !.accepted = Append(@, [bi |-> bulk.bi,
                                                    pi |-> bulk.pi,
                                                    key |-> printstr(p)])]
                      /\ prio' = prio
    /\ UNCHANGED <<varsMain, varsKraken>>

\* Lines 604-605 with set_price_db, lines 348-363: one resolved price is
\* written; a conflict reads the stored price back and warns if it differs.
BulkStore ==
    /\ bulk.pc = "store"
    /\ LET p == bulk.datacomb[bulk.di]
           k == Key(bulk.groups[bulk.gi].platf, BulkCoin, FIAT, p.t)
           b == IF bulk.di < Len(bulk.datacomb)
                THEN [bulk EXCEPT !.di = @ + 1]
                ELSE [bulk EXCEPT !.pc = "platf", !.gi = @ + 1]
       IN  IF ~unique_violation(db, k)
           THEN /\ db' = set_price_db_row(db, k, p.price)
                /\ first' = first @@ (k :> p.price)
                /\ bulk' = b
           ELSE /\ UNCHANGED <<db, first>>
                /\ bulk' = [b EXCEPT !.warned =
                      IF p.price # get_price_db(db, k) THEN @ + 1 ELSE @]
    /\ UNCHANGED <<stack, cur, last, ncalls, symInfo, varsKraken, prio>>

NextBulk ==
    \/ BulkFilter
    \/ BulkBatches
    \/ BulkGetPath
    \/ BulkGetCandles
    \/ BulkStore

SpecBulk == InitBulk /\ [][NextBulk]_vars

\* ================================================================ claims
IsGetPrice(l) == l.call.op = "get_price"
CallKey(cu) == Key(cu.platform, cu.coin, cu.ref, cu.t)

\* C1: get_price(venue, X, t, X) returns exactly 1 on every venue, with or
\* without a fetcher, and issues no remote request and no read or write of
\* the Cache Store.
C1_IdentityIsOne ==
    \A c \in Callers :
        (IsGetPrice(last[c]) /\ last[c].call.coin = last[c].call.ref)
        => /\ last[c].status = "ok"
           /\ last[c].value = One
           /\ last[c].call.reqs = 0
           /\ last[c].call.reads = 0
           /\ last[c].call.writes = 0

C1_Witness ==
    /\ IsGetPrice(last[1])
    /\ last[1].call.coin = last[1].call.ref
    /\ last[1].call.platform = "bitpanda"
    /\ last[1].status = "ok"
    /\ db # <<>>

\* C2: for base # reference on a venue with a fetcher, two consecutive
\* get_price calls with identical arguments issue at most one remote
\* request together; the second issues none and returns the price the
\* first returned.
C2_SecondCallSamePrice ==
    [][\A c \in Callers :
        ( /\ cur[c].op = "get_price"
          /\ cur'[c].op = "idle"
          /\ IsGetPrice(last[c])
          /\ last[c].status = "ok"
          /\ CallKey(last[c].call) = CallKey(cur[c])
          /\ cur[c].coin # cur[c].ref
          /\ HasFetcher(cur[c].platform) )
        => /\ last'[c].status = "ok"
           /\ last'[c].call.reqs = 0
           /\ last[c].call.reqs + last'[c].call.reqs <= 1
           /\ last'[c].value = last[c].value]_vars

\* C3: first write wins.  A record, once stored, is never modified or
\* removed by any later step, and what is stored for a key is what the
\* first successful write for that key stored.
C3_FirstWriteWins ==
    /\ [][\A k \in DOMAIN db : k \in DOMAIN db' /\ db'[k] = db[k]]_vars
    /\ [](\A k \in DOMAIN db : k \in DOMAIN first /\ db[k] = ToDb(first[k]))

C3_Witness ==
    /\ last[1].call.op = "set_price_db"
    /\ last[1].frame.pc = "conflict"
    /\ last[1].call.warned
    /\ CallKey(last[1].call) \in DOMAIN db
    /\ ToDb(last[1].call.price) # db[CallKey(last[1].call)]

\* C4: set_price_db on a key that already holds price P1 warns if and only
\* if the new price differs from P1; it returns normally either way and P1
\* stays stored.
C4_WarnIffDifferent ==
    \A c \in Callers :
        LET l == last[c]
            k == CallKey(l.call)
        IN  (l.call.op = "set_price_db" /\ l.frame.pc = "conflict")
            => /\ l.status = "ok"
               /\ k \in DOMAIN first
               /\ l.call.warned <=> (l.call.price # first[k])

\* C6: on Binance, when BASE+REF is an invalid symbol (REF # BTC) and both
\* BASE/BTC and BTC/REF resolve, get_price(BASE, t, REF) returns the
\* product of the two leg prices, and the cache then holds all three pairs.
Bridged(f) ==
    f.via = "bridge" /\ f.platform = "binance" /\ f.coin # "BTC" /\ f.ref # "BTC"

BridgedOk(f) ==
    LET k1 == Key("binance", f.coin, "BTC", f.t)
        k2 == Key("binance", "BTC", f.ref, f.t)
    IN  /\ f.price = DecMul(f.btc, f.quote)
        /\ k1 \in DOMAIN db /\ db[k1] = ToDb(f.btc)
        /\ k2 \in DOMAIN db /\ db[k2] = ToDb(f.quote)

C6_BridgeProduct ==
    \A c \in Callers :
        /\ \A i \in 1..Len(stack[c]) :
              (Bridged(stack[c][i]) /\ stack[c][i].pc = "store")
              => BridgedOk(stack[c][i])
        /\ (IsGetPrice(last[c]) /\ last[c].status = "ok"
                /\ Bridged(last[c].frame))
           => /\ BridgedOk(last[c].frame)
              /\ last[c].value = last[c].frame.price
              /\ FrameKey(last[c].frame) \in DOMAIN db
              /\ db[FrameKey(last[c].frame)] = ToDb(last[c].value)

C6_Witness ==
    /\ IsGetPrice(last[1])
    /\ last[1].status = "ok"
    /\ Bridged(last[1].frame)
    /\ last[1].frame.btc \notin {Zero, One}
    /\ last[1].frame.quote \notin {Zero, One}
    /\ last[1].frame.btc # last[1].frame.quote
    /\ last[1].call.reqs = 3

\* C7: on Binance, when the reference is BTC and both BASE+BTC and BTC+BASE
\* are reported invalid, get_price(BASE, t, BTC) fails with the
\* unrecoverable error after at most the two requests, tries no further
\* fallback and stores nothing.
BothInvalid(cu) ==
    /\ cu.op = "get_price"
    /\ cu.platform = "binance"
    /\ cu.ref = "BTC"
    /\ cu.coin # "BTC"
    /\ {<<cu.coin, "BTC">>, <<"BTC", cu.coin>>} \subseteq cu.invalid

C7_ReverseInvalidFails ==
    \A c \in Callers :
        /\ ~BothInvalid(cur[c])
        /\ BothInvalid(last[c].call)
           => /\ last[c].status = "RuntimeError"
              /\ last[c].call.reqs <= 2
              /\ last[c].call.writes = 0

\* C9: two callers that run get_price for the same key and both miss the
\* cache both fetch, and both return a price: the later write-back is
\* reported as a conflict, not raised, and the store holds one record, the
\* first one written.
C9_ConcurrentMissBothReturn ==
    \A c1, c2 \in Callers :
        ( /\ c1 # c2
          /\ IsGetPrice(last[c1]) /\ IsGetPrice(last[c2])
          /\ CallKey(last[c1].call) = CallKey(last[c2].call)
          /\ last[c1].frame.pc = "store" /\ last[c2].frame.pc = "store" )
        => /\ last[c1].status = "ok"
           /\ last[c2].status = "ok"
           /\ CallKey(last[c1].call) \in DOMAIN db

\* C5: given a page of ascending trade timestamps that brackets the target,
\* the Kraken fetcher returns the price of the most recent trade at or
\* before the target, a trade exactly at the target included.
Brackets(page) ==
    /\ \E i \in 1..Len(page) : page[i].ts <= TargetTs
    /\ \E i \in 1..Len(page) : page[i].ts > TargetTs

LastAtOrBefore(page) ==
    page[CHOOSE i \in 1..Len(page) :
            /\ page[i].ts <= TargetTs
            /\ \A j \in 1..Len(page) : page[j].ts <= TargetTs => j <= i]

C5_MostRecentAtOrBefore ==
    (kout.out # "none" /\ Brackets(kout.page))
    => /\ kout.out = "price"
       /\ kout.price = LastAtOrBefore(kout.page).price

\* C8: in the batch preloader every operation whose (platform, coin,
\* reference, timestamp) key has a record in the Cache Store, whatever the
\* stored price (the zero sentinel included), is filtered out before
\* batching, so no path lookup or candle request is made for it.
\* (While the first platform's batches are worked on the store is still as
\* the call found it.)
BulkKey(platform, t) == Key(platform, BulkCoin, FIAT, t)

C8_CachedOpsFiltered ==
    (bulk.gi = 1 /\ bulk.pc \in {"platf", "batch", "path"})
    => /\ \A i \in 1..Len(bulk.filtered) :
            ~HasPrice(db, BulkKey(bulk.filtered[i].platform,
                                  bulk.filtered[i].utc_time))
       /\ bulk.pc = "path"
          => \A i \in 1..Len(bulk.batches[bulk.bi]) :
                ~HasPrice(db, BulkKey(bulk.groups[bulk.gi].platf,
                                      bulk.batches[bulk.bi][i]))

\* C10: each time a candidate path fails (a hop's candle request comes back
\* empty), the weight of exactly the edge symbols of that path becomes 20%
\* of what it was, once; in every other step, the acceptance of a path
\* included, every weight stays as it is.
PathFails ==
    /\ bulk.pc = "path"
    /\ Len(bulk'.reqs) = Len(bulk.reqs) + 1
    /\ bulk'.reqs[Len(bulk'.reqs)].answered = 0

Decayed(weights, path) ==
    [s \in Symbols |->
        IF \E i \in 1..Len(path) : path[i].symbol = s
        THEN Rat(weights[s].n, 5 * weights[s].d)
        ELSE weights[s]]

C10_DecayOncePerFailedPath ==
    [][IF PathFails
       THEN prio' = Decayed(prio, bulk.paths[bulk.pi])
       ELSE prio' = prio]_vars

C10_Witness ==
    /\ bulk.paths = <<PathBridge, PathDirect>>
    /\ Len(bulk.reqs) = 3
    /\ bulk.reqs[2].hi = 2 /\ bulk.reqs[2].answered = 0
    /\ Len(bulk.failed) = 1 /\ Len(bulk.accepted) = 1
    /\ prio["TWT/BTC"] = Rat(1, 5)
    /\ prio["BTC/EUR"] = Rat(1, 5)
    /\ prio["TWT/EUR"] = One
    /\ prio["EUR/TWT"] = One

\* C11: in the Kraken fetcher each page fetch issues at most 10 requests;
\* the k-th consecutive error answer is followed by a wait of 2^k seconds
\* (2, 4, ... doubling); ten error answers in a row end the fetch with the
\* hard failure, never a zero price, and get_price then stores nothing.
RECURSIVE ErrRun(_, _)
ErrRun(log, i) ==
    IF i = 0 \/ ~log[i].error THEN 0 ELSE 1 + ErrRun(log, i - 1)

BackoffOk(log) ==
    \A i \in 1..Len(log) :
        /\ ErrRun(log, i) <= 10
        /\ log[i].sleep =
             IF ~log[i].error THEN 0
             ELSE IF i > 1 /\ log[i - 1].error THEN 2 * log[i - 1].sleep
             ELSE 2
        /\ ErrRun(log, i) = 10 => i = Len(log)

C11_RetryBackoff ==
    /\ [](/\ BackoffOk(kout.log)
          /\ (Len(kout.log) > 0 /\ ErrRun(kout.log, Len(kout.log)) = 10)
             <=> kout.out = "RuntimeError")
    /\ [][\A c \in Callers :
            (kout' # kout /\ kout'.out = "RuntimeError" /\ stack[c] # <<>>)
            => /\ db' = db
               /\ last'[c].status = "RuntimeError"
               /\ stack'[c] = <<>>]_vars

C11_Witness ==
    /\ kout.out = "RuntimeError"
    /\ Len(kout.log) = 10
    /\ kout.log[10].sleep = 1024
    /\ last[1].status = "RuntimeError"
    /\ last[1].call.reqs = 10
    /\ db # <<>>

\* C12: for base # reference on a venue without a fetcher, get_price never
\* issues a remote request and never writes the Cache Store; it returns the
\* stored price if there is one and on a cache miss fails with the
\* unimplemented-venue error.
NoFetcherCall(cu) ==
    cu.op = "get_price" /\ cu.platform = "bitpanda" /\ cu.coin # cu.ref

C12_NoFetcherVenue ==
    [][\A c \in Callers :
        NoFetcherCall(cur[c])
        => /\ db' = db
           /\ cur'[c].reqs = 0 /\ cur'[c].writes = 0
           /\ cur'[c].op = "idle"
              => /\ last'[c].call.reqs = 0
                 /\ last'[c].call.writes = 0
                 /\ IF CallKey(cur[c]) \in DOMAIN db
                    THEN /\ last'[c].status = "ok"
                         /\ last'[c].value = db[CallKey(cur[c])]
                    ELSE last'[c].status = "NotImplementedError"]_vars

C12_Witness ==
    /\ NoFetcherCall(last[1].call)
    /\ last[1].status = "NotImplementedError"
    /\ last[1].call.reads = 1
    /\ db # <<>>

\* C13: when binance knows the symbol but has no trade in the window, the
\* fetcher returns a zero price instead of failing; get_price returns 0 and
\* writes 0 to the cache, and every later get_price for that key returns 0
\* from the cache without a remote request.
ZeroFetched(l) ==
    /\ IsGetPrice(l) /\ l.status = "ok"
    /\ l.frame.platform = "binance" /\ l.frame.via = "direct"
    /\ l.frame.price = Zero

C13_ZeroPriceCached ==
    /\ [](/\ \A data \in TradeLists : (average_price(data) = Zero) <=> (data = <<>>)
          /\ \A c \in Callers :
                ZeroFetched(last[c])
                => /\ last[c].value = Zero
                   /\ FrameKey(last[c].frame) \in DOMAIN db
                   /\ db[FrameKey(last[c].frame)] = Zero)
    /\ [][\A c \in Callers :
            ( /\ cur[c].op = "get_price" /\ cur'[c].op = "idle"
              /\ CallKey(cur[c]) \in DOMAIN db
              /\ db[CallKey(cur[c])] = Zero )
            => /\ last'[c].status = "ok"
               /\ last'[c].value = Zero
               /\ last'[c].call.reqs = 0
               /\ db' = db]_vars

C13_Witness ==
    /\ IsGetPrice(last[1]) /\ last[1].status = "ok"
    /\ last[1].call.platform = "binance"
    /\ last[1].call.coin # last[1].call.ref
    /\ last[1].value = Zero
    /\ last[1].call.reqs = 0 /\ last[1].call.reads = 1
    /\ db[CallKey(last[1].call)] = Zero

\* C14: for a non-empty list of trades the binance fetcher returns exactly
\* sum(price_i * quantity_i) / sum(quantity_i), computed without rounding
\* (trades (10, 1) and (20, 3) give 17.5); the division is only performed
\* when there is a trade.
RatAdd(a, b) == Rat(a.n * b.d + b.n * a.d, a.d * b.d)
RatMul(a, b) == Rat(a.n * b.n, a.d * b.d)

RECURSIVE ExactCost(_, _)
ExactCost(data, i) ==
    IF i = 0 THEN Zero
    ELSE RatAdd(ExactCost(data, i - 1), RatMul(data[i].p, data[i].q))

RECURSIVE ExactQuantity(_, _)
ExactQuantity(data, i) ==
    IF i = 0 THEN Zero ELSE RatAdd(ExactQuantity(data, i - 1), data[i].q)

DirectFetched(f) ==
    f.platform = "binance" /\ f.via = "direct" /\ f.pc = "store"

FetchedFrames ==
    UNION {{stack[c][i] : i \in 1..Len(stack[c])} : c \in Callers}
        \cup {last[c].frame : c \in Callers}

C14_ExactAverage ==
    \A f \in FetchedFrames :
        (DirectFetched(f) /\ f.trades # <<>>)
        => RatMul(f.price, ExactQuantity(f.trades, Len(f.trades)))
             = ExactCost(f.trades, Len(f.trades))

\* C14, amended: the fetcher returns that quotient as decimal arithmetic
\* gives it, rounded half-even to the context precision, so it is the exact
\* quotient whenever that has no more digits than the precision (17.5 for
\* the example); an empty list gives zero without a division.
C14_RoundedAverage ==
    \A f \in FetchedFrames :
        DirectFetched(f)
        => LET cost == ExactCost(f.trades, Len(f.trades))
               quantity == ExactQuantity(f.trades, Len(f.trades))
           IN  /\ f.trades = <<>> => f.price = Zero
               /\ f.trades # <<>>
                  => f.price = RoundSig(cost.n * quantity.d,
                                        cost.d * quantity.n, DecPrec)
               /\ f.trades = <<Trade(10, 1), Trade(20, 3)>>
                  => f.price = Rat(35, 2)

C14_Witness ==
    /\ IsGetPrice(last[1]) /\ last[1].status = "ok"
    /\ DirectFetched(last[1].frame)
    /\ Len(last[1].frame.trades) = 2
    /\ RatMul(last[1].value, ExactQuantity(last[1].frame.trades, 2))
         # ExactCost(last[1].frame.trades, 2)

\* C15: for any list of operations, in any order, the batches partition
\* the requested timestamps, each batch is chronologically ordered
\* (batch-start <= every member <= batch-end) and spans less than 296
\* minutes, so get_candles is always called with stop >= start.
RECURSIVE Flatten(_, _)
Flatten(pairs, i) ==
    IF i = 0 THEN <<>> ELSE Flatten(pairs, i - 1) \o pairs[i]

BatchOrdered(batch) ==
    /\ \A i \in 1..Len(batch) :
          batch[1] <= batch[i] /\ batch[i] <= batch[Len(batch)]
    /\ batch[Len(batch)] - batch[1] < maxminutes - 4

C15_BatchesOrdered ==
    /\ bulk.status # "AssertionError"
    /\ bulk.pc \in {"batch", "path", "store"}
       => /\ \A i \in 1..Len(bulk.batches) : BatchOrdered(bulk.batches[i])
          /\ Flatten(bulk.batches, Len(bulk.batches))
               = [i \in 1..Len(bulk.groups[bulk.gi].ops) |->
                     bulk.groups[bulk.gi].ops[i].utc_time]
    /\ \A i \in 1..Len(bulk.reqs) :
          bulk.reqs[i].req.stop >= bulk.reqs[i].req.start

\* C16: for every batch and every path hop the candle request covers the
\* whole interval [batch-start - 2 min, batch-end + 2 min]: it starts two
\* minutes before batch-start, and the number of 1-minute candles requested
\* reaches batch-end + 2 minutes.
LastRequestedStart(req) == req.since + (req.limit - 1) * MsPerMinute

C16_RequestCoversMargins ==
    \A i \in 1..Len(bulk.reqs) :
        LET req == bulk.reqs[i].req
        IN  /\ req.since = req.start - 2 * MsPerMinute
            /\ LastRequestedStart(req) >= req.stop + 2 * MsPerMinute

\* C17: every page request of the Venue B fetcher, at every step size from
\* 10 down to 1, uses an offset of at most 120 minutes before the target.
C17_OffsetAtMost120 ==
    \A i \in 1..Len(kout.log) :
        /\ kout.log[i].step \in 1..KrakenMinutesStep
        /\ kout.log[i].offset <= KrakenMaxOffset

\* C18: the Venue B fetcher always terminates: a page that overshoots at a
\* step above 1 restarts the search with the step decreased by exactly 1
\* (never below 1), so at most 10 step sizes and a bounded number of page
\* requests are used, and the call ends in exactly one of: a trade price
\* from a bracketing page, a zero price (only on an overshoot at step 1 or
\* when the offset ceiling is reached with every page too recent), or a
\* hard failure.
PageAt(offset) == Page(kin.hist, TargetTs - 60 * offset)

Before(page) == {i \in 1..Len(page) : page[i].ts < TargetTs}

Overshoots(page) == page # <<>> /\ Before(page) = DOMAIN page

TooRecent(page) == Before(page) = {}

RECURSIVE PagesUpTo(_)
PagesUpTo(step) ==
    IF step = 0 THEN 0
    ELSE PagesUpTo(step - 1) + (KrakenMaxOffset + step - 1) \div step

Pages(log) == {i \in 1..Len(log) : ~log[i].error}

StepsOk(log) ==
    /\ \A i \in 1..Len(log) : log[i].step \in 1..KrakenMinutesStep
    /\ log # <<>> => log[1].step = KrakenMinutesStep
    /\ \A i \in 1..(Len(log) - 1) :
          LET restart == /\ ~log[i].error
                         /\ Overshoots(PageAt(log[i].offset))
                         /\ log[i].step > 1
          IN  IF restart
              THEN /\ log[i + 1].step = log[i].step - 1
                   /\ log[i + 1].offset = log[i + 1].step
              ELSE log[i + 1].step = log[i].step

EndsOk(r) ==
    LET log == r.log
        final == log[Len(log)]
    IN  /\ r.out \in {"price", "zero", "RuntimeError"}
        /\ log # <<>>
        /\ r.out = "price"
           => /\ ~final.error
              /\ r.page = PageAt(final.offset)
              /\ \E i \in DOMAIN r.page : r.page[i].ts < TargetTs
              /\ \E i \in DOMAIN r.page : r.page[i].ts >= TargetTs
              /\ \E i \in DOMAIN r.page : r.price = r.page[i].price
        /\ r.out = "zero"
           => /\ r.price = Zero
              /\ ~final.error
              /\ \/ final.step = 1 /\ Overshoots(PageAt(final.offset))
                 \/ /\ final.offset >= KrakenMaxOffset
                    /\ \A i \in Pages(log) : TooRecent(PageAt(log[i].offset))
        /\ r.out = "RuntimeError"
           => /\ Len(log) >= KrakenNumRetries
              /\ \A i \in (Len(log) - KrakenNumRetries + 1)..Len(log) :
                    log[i].error /\ log[i].offset = final.offset

C18_FetcherTerminates ==
    kout.out # "none"
    => /\ StepsOk(kout.log)
       /\ Cardinality(Pages(kout.log)) <= PagesUpTo(KrakenMinutesStep)
       /\ Len(kout.log) <= KrakenNumRetries * PagesUpTo(KrakenMinutesStep)
       /\ EndsOk(kout)

C18_Witness ==
    /\ kout.out = "zero"
    /\ kout.log[Len(kout.log)].step = 1
    /\ Overshoots(PageAt(kout.log[Len(kout.log)].offset))
    /\ \A s \in 1..KrakenMinutesStep :
          \E i \in 1..Len(kout.log) : kout.log[i].step = s

\* C19: within one batch the candidate paths are attempted strictly in the
\* order the Path Resolver returned them; a path is abandoned at its first
\* hop without candles, its remaining hops unfetched; the first path whose
\* every hop yields candles is accepted with exactly one price per
\* timestamp of the batch, and no later path is attempted or fetched.
NoPos == <<0, 0>>

\* The position of the i-th candle request of the batch; past the last
\* request, the position the path loop stands at.
Pos(i) ==
    IF i <= Len(bulk.reqs) THEN <<bulk.reqs[i].pi, bulk.reqs[i].hi>>
    ELSE IF bulk.pc = "path" THEN <<bulk.pi, bulk.hi>>
    ELSE NoPos

PosAfter(r) ==
    IF r.answered = 0
    THEN IF r.pi < Len(bulk.paths) THEN <<r.pi + 1, 1>> ELSE NoPos
    ELSE IF r.hi < Len(bulk.paths[r.pi]) THEN <<r.pi, r.hi + 1>> ELSE NoPos

Completes(r) == r.answered > 0 /\ r.hi = Len(bulk.paths[r.pi])

PricesOfBatch(batch) ==
    /\ Len(bulk.datacomb) >= Len(batch)
    /\ \A j \in 1..Len(batch) :
          bulk.datacomb[Len(bulk.datacomb) - Len(batch) + j].t = batch[j]

C19_PathsInOrder ==
    bulk.reqs # <<>>
    => /\ Pos(1) = <<1, 1>>
       /\ \A i \in 1..Len(bulk.reqs) :
             LET r == bulk.reqs[i]
             IN  /\ Pos(i + 1) = PosAfter(r)
                 /\ r.req.symbol = bulk.paths[r.pi][r.hi].symbol
                 /\ r.req.exchange = bulk.paths[r.pi][r.hi].exchange
       /\ LET r == bulk.reqs[Len(bulk.reqs)]
          IN  IF Completes(r)
              THEN /\ bulk.accepted = <<[bi |-> r.bi, pi |-> r.pi,
                                         key |-> printstr(bulk.paths[r.pi])]>>
                   /\ (bulk.gi = r.gi /\ bulk.pc \in {"batch", "store"})
                      => PricesOfBatch(bulk.batches[r.bi])
              ELSE bulk.accepted = <<>>

C19_Witness ==
    /\ bulk.paths = <<PathBridge, PathDirect>>
    /\ Len(bulk.reqs) = 2
    /\ bulk.reqs[1].answered = 0
    /\ Completes(bulk.reqs[2])
    /\ bulk.pc = "batch"
    /\ Len(bulk.batches[bulk.reqs[1].bi]) = 2

\* C20: for an accepted path the price of each requested timestamp is the
\* product, over the hops in order, of the hop's value at the candle whose
\* start time has the smallest absolute difference to the timestamp (the
\* first such candle on ties); a hop's value is the mean of the candle's
\* open and close, or the reciprocal of that mean when the hop's edge is
\* marked inverted.  The arithmetic is the floating point one of the code.
CandlesOf(r) == fetch_ohlcv(r.venue, r.req.since, r.req.limit)

Distance(candle, t) ==
    IF to_ms_timestamp(t) >= candle.ts
    THEN to_ms_timestamp(t) - candle.ts
    ELSE candle.ts - to_ms_timestamp(t)

FirstClosest(candles, t) ==
    LET distances == {Distance(candles[i], t) : i \in 1..Len(candles)}
        smallest == CHOOSE d \in distances : \A e \in distances : d <= e
        closest == {i \in 1..Len(candles) : Distance(candles[i], t) = smallest}
    IN  candles[CHOOSE i \in closest : \A j \in closest : i <= j]

ValueAt(r, t) ==
    LET c == FirstClosest(CandlesOf(r), t)
        mean == FltDiv(FltAdd(c.open, c.close), Int2Rat(2))
    IN  IF bulk.paths[r.pi][r.hi].inverted THEN FltDiv(One, mean) ELSE mean

\* The requests of the accepted path are the last ones of the batch's log.
RECURSIVE ChainedPrice(_, _, _)
ChainedPrice(reqs, h, t) ==
    IF h = 1 THEN ValueAt(reqs[1], t)
    ELSE FltMul(ChainedPrice(reqs, h - 1, t), ValueAt(reqs[h], t))

\* The state the acceptance of a path leaves.
AcceptedNow ==
    /\ bulk.reqs # <<>>
    /\ Completes(bulk.reqs[Len(bulk.reqs)])
    /\ bulk.gi = bulk.reqs[1].gi
    /\ bulk.pc = "batch"

C20_ChainedClosestCandle ==
    AcceptedNow
    => LET r == bulk.reqs[Len(bulk.reqs)]
           hops == Len(bulk.paths[r.pi])
           reqs == SubSeq(bulk.reqs, Len(bulk.reqs) - hops + 1, Len(bulk.reqs))
           batch == bulk.batches[r.bi]
           base == Len(bulk.datacomb) - Len(batch)
       IN  /\ base >= 0
           /\ \A j \in 1..Len(batch) :
                 /\ bulk.datacomb[base + j].t = batch[j]
                 /\ bulk.datacomb[base + j].price = ChainedPrice(reqs, hops, batch[j])

\* Two hops, the timestamp midway between two candles of the second hop's
\* venue.
C20_Witness ==
    /\ AcceptedNow
    /\ bulk.batches[bulk.reqs[1].bi] = <<0, 1>>
    /\ bulk.reqs[Len(bulk.reqs)].hi = 2
    /\ bulk.reqs[Len(bulk.reqs)].venue = "even"

\* C21: every get_price call on Binance terminates, with a price or an
\* error, after a bounded number of requests and a bounded recursion depth,
\* whatever symbols are valid: the recursion of the fallbacks ends by
\* itself (at most the direct symbol, the two bridge legs and one swapped
\* leg are asked for) and never runs into the interpreter's stack limit.
BinanceCall(cu) == cu.op = "get_price" /\ cu.platform = "binance"

C21_BinanceBounded ==
    \A c \in Callers :
        /\ BinanceCall(cur[c]) => cur[c].reqs <= 4
        /\ (last[c].status # "none" /\ BinanceCall(last[c].call))
           => /\ last[c].status # "RecursionError"
              /\ last[c].call.reqs <= 4

\* C22: if the venue fetcher raises during get_price (the hard failure after
\* the retries, an HTTP error, a symbol that cannot be resolved), get_price
\* ends with that error and no record is stored for the requested key, so
\* a later get_price with the same arguments goes to the fetcher again.
FetcherErrors == {"RuntimeError", "HTTPError", "RecursionError"}

FetchFailed(l) == IsGetPrice(l) /\ l.status \in FetcherErrors

\* The call of caller c ends in a step of the fetcher: a fetch alone never
\* completes a call, so the fetcher raised.
EndsInFetch(c) ==
    /\ cur[c].op = "get_price"
    /\ stack[c] # <<>>
    /\ Top(c).fn = "get_price" /\ Top(c).pc = "fetch"
    /\ stack'[c] = <<>>

\* The later call: same arguments as the failed one, about to look up.
RetryStarts(c) ==
    /\ FetchFailed(last[c])
    /\ cur[c].op = "get_price"
    /\ CallKey(cur[c]) = CallKey(last[c].call)
    /\ Len(stack[c]) = 1
    /\ Running(c, "get_price", "start")

RetryFetches(c) ==
    /\ FetchFailed(last[c])
    /\ cur[c].op = "get_price"
    /\ CallKey(cur[c]) = CallKey(last[c].call)
    /\ Len(stack[c]) = 1
    /\ Running(c, "get_price", "fetch")

C22_FailedFetchPropagates ==
    /\ [](\A c \in Callers :
            (FetchFailed(last[c]) /\ stack[c] = <<>>)
            => ~HasPrice(db, CallKey(last[c].call)))
    /\ [][\A c \in Callers :
            /\ EndsInFetch(c)
               => /\ last'[c].status \in FetcherErrors
                  /\ last'[c].call.op = "get_price"
                  /\ CallKey(last'[c].call) = CallKey(cur[c])
                  /\ db' = db
                  /\ ~HasPrice(db', CallKey(cur[c]))
            /\ (RetryStarts(c) /\ stack'[c] # stack[c])
               => /\ stack'[c] # <<>>
                  /\ stack'[c][1].pc = "fetch"
            /\ (RetryFetches(c) /\ stack'[c] # stack[c])
               => IF stack'[c] = <<>>
                  THEN last'[c].call.reqs >= 1
                  ELSE cur'[c].reqs >= 1]_vars

\* After a failed fetch the same call is made again and has sent a request.
C22_Witness ==
    /\ FetchFailed(last[1])
    /\ last[1].call.reqs >= 1
    /\ cur[1].op = "get_price"
    /\ CallKey(cur[1]) = CallKey(last[1].call)
    /\ cur[1].reqs >= 1
    /\ stack[1] # <<>>
    /\ ~HasPrice(db, CallKey(cur[1]))

====
